---- MODULE Spec2Model ----
(***************************************************************************)
(* Charlotte Golf Guide (src/app.py): the query engine (sidebar filters    *)
(* and sort), the Google Places resolvers get_place_id / get_place_photos  *)
(* behind st.cache_data, the batch lookups (featured preview loop and      *)
(* verify_all_courses_photos) and load_courses.                            *)
(*                                                                         *)
(* Representation.                                                         *)
(*  - A str is a sequence of character codes (65 = "A", 97 = "a").         *)
(*  - star_rating is kept in tenths of a star (35 = 3.5).                  *)
(*  - None is the string "None" where the other values are strings, and    *)
(*    the empty tuple <<>> for an optional number (<<v>> is the number v). *)
(*  - A Python list object is [ref, items]: ref tells list objects apart   *)
(*    ("courses" is the module-level list, "fresh" a list a comprehension  *)
(*    built), items is its content.                                        *)
(***************************************************************************)
EXTENDS Integers, Sequences, FiniteSets, TLC

VARIABLES
    \* ---- query engine (src/app.py 166-234)
    dataset,        \* what load_courses() returns at the start of every run
    courses,        \* content of the module-level list `courses` after the run
    search,         \* st.sidebar.text_input
    price_range,    \* st.sidebar.slider, <<low, high>>
    min_stars,      \* st.sidebar.slider
    hole_filter,    \* st.sidebar.radio
    sort_option,    \* st.sidebar.selectbox
    filtered,       \* content of the list `filtered` after the sort
    filteredRef,    \* which list object `filtered` names after the run
    \* ---- resolvers behind st.cache_data (src/app.py 38-106)
    now,            \* the clock the cache reads, in seconds
    placeCache,     \* st.cache_data of get_place_id: arguments -> [at, value]
    photoCache,     \* st.cache_data of get_place_photos: arguments -> [at, value]
    lastCall,       \* the last resolver call: arguments, response, outcome
                    \* (issued: a request went out; stale: an expired entry
                    \* was found)
    placeArgs,      \* the get_place_id arguments under study
    photoArgs,      \* the get_place_photos arguments under study
    \* ---- the script as a whole (src/app.py 16, 119-465)
    started,        \* the session has had its first run
    GOOGLE_API_KEY, \* os.getenv('GOOGLE_MAPS_API_KEY'): "key" or None
    world,          \* what the provider knows of each place
    session,        \* st.session_state
    selected_option,\* the gallery selectbox: <<>> for None, <<name>> for a name
    verifyCache,    \* st.cache_data of verify_all_courses_photos
    trace,          \* the requests, pauses and photo URLs of the last run
    \* ---- load_courses (src/app.py 112-119)
    file,           \* charlotte_courses.json on disk
    loadCache,      \* st.cache_data of load_courses
    loadOutcome,    \* the last load_courses call: read the file? raised?
    runStatus       \* how the last run ended, up to the course list

queryVars == <<dataset, courses, search, price_range, min_stars, hole_filter,
               sort_option, filtered, filteredRef>>

cacheVars == <<now, placeCache, photoCache>>

resolverVars == <<lastCall, placeArgs, photoArgs>>

appVars == <<started, GOOGLE_API_KEY, world, session, selected_option, verifyCache,
             trace>>

loadVars == <<file, loadCache, loadOutcome, runStatus>>

vars == <<queryVars, cacheVars, resolverVars, appVars, loadVars>>

\* ------------------------------------------------------------------------
\* Bounds of the model

\* Longest course collection loaded.
MaxCourses == 3

\* Most photos in one place-details answer.
MaxPhotos == 3

\* The clock stops here; it advances by TickStep seconds.
MaxTime == 7200

TickStep == 1800

\* Most records in the dataset file.
MaxFileRecords == 2

\* The clock of the load cache stops here.
MaxLoadTime == 120

\* ------------------------------------------------------------------------
\* Helpers

Range(s) == {s[i] : i \in 1..Len(s)}

Abs(x) == IF x < 0 THEN -x ELSE x

Min(a, b) == IF a < b THEN a ELSE b

\* Sequences over S of length lo..hi without a repeated element.
DistinctSeqs(S, lo, hi) ==
    UNION {{s \in [1..n -> S] : \A i, j \in 1..n : i # j => s[i] # s[j]} : n \in lo..hi}

\* Position of record c in list s (c occurs once).
IndexOf(s, c) == CHOOSE i \in 1..Len(s) : s[i] = c

\* ------------------------------------------------------------------------
\* Course records: the fields of charlotte_courses.json the code reads in
\* the filters, the sort and the lookups.

Course(n, a, wp, sr, h, y, lat, lon) ==
    [name |-> n, address |-> a, weekday_price |-> wp, star_rating |-> sr,
     holes |-> h, yardage |-> y, latitude |-> lat, longitude |-> lon]

CoursePool ==
    { Course(<<65, 98>>, "1 Main St",  45, 40, 18, 6500, <<24184>>, <<7>>),   \* "Ab"
      Course(<<97, 66>>, "2 Oak Ave",  25, 35,  9, 3000, <<>>,      <<>>),    \* "aB"
      Course(<<66, 97>>, "3 Elm Rd",   45, 40, 18, 6500, <<0>>,     <<7>>),   \* "Ba"
      Course(<<65, 98>>, "4 Pine Ln",  60, 30, 18, 7000, <<24184>>, <<0>>) }  \* "Ab"

\* A loaded collection: the price slider (lines 172-179) needs two prices.
Datasets ==
    {d \in DistinctSeqs(CoursePool, 2, MaxCourses) :
        \E i, j \in 1..Len(d) : d[i].weekday_price # d[j].weekday_price}

\* ------------------------------------------------------------------------
\* str operations

\* str.lower() on one character
LowerChar(ch) == IF ch >= 65 /\ ch <= 90 THEN ch + 32 ELSE ch

\* str.lower()
Lower(s) == [i \in 1..Len(s) |-> LowerChar(s[i])]

\* `needle in hay` for strs: hay has needle as a contiguous substring
StrIn(needle, hay) ==
    \E k \in 0..(Len(hay) - Len(needle)) :
        \A i \in 1..Len(needle) : hay[k + i] = needle[i]

\* a < b for strs: lexicographic by character code
StrLess(a, b) ==
    \E k \in 1..(Len(b)) :
        /\ k <= Len(a) + 1
        /\ \A i \in 1..(k - 1) : a[i] = b[i]
        /\ (k = Len(a) + 1 \/ a[k] < b[k])

\* ------------------------------------------------------------------------
\* Apply Filters (lines 207-219)

\* line 211: built only when `if search:` holds
SearchFilter(f, s) ==
    IF s # <<>>
    THEN [ref |-> "fresh",
          items |-> SelectSeq(f.items, LAMBDA c : StrIn(Lower(s), Lower(c.name)))]
    ELSE f

PriceFilterStrictUpper(f, pr) ==
    [ref |-> "fresh",
     items |-> SelectSeq(f.items, LAMBDA c : pr[1] <= c.weekday_price
                                             /\ c.weekday_price < pr[2])]

\* line 213
PriceFilter(f, pr) ==
    [ref |-> "fresh",
     items |-> SelectSeq(f.items, LAMBDA c : pr[1] <= c.weekday_price
                                             /\ c.weekday_price <= pr[2])]

\* line 214
StarFilter(f, ms) ==
    [ref |-> "fresh", items |-> SelectSeq(f.items, LAMBDA c : c.star_rating >= ms)]

\* lines 216-219
HoleFilter(f, hf) ==
    IF hf = "9-Hole Only"
    THEN [ref |-> "fresh", items |-> SelectSeq(f.items, LAMBDA c : c.holes = 9)]
    ELSE IF hf = "18-Hole Only"
    THEN [ref |-> "fresh", items |-> SelectSeq(f.items, LAMBDA c : c.holes = 18)]
    ELSE f

\* A filter stage that hands its input list on when it drops nothing.
KeepIfAll(f, g) == IF g.items = f.items THEN f ELSE g

ApplyFiltersNoCopy(cs, s, pr, ms, hf) ==
    LET f0 == [ref |-> "courses", items |-> cs]
        f1 == SearchFilter(f0, s)
        f2 == KeepIfAll(f1, PriceFilter(f1, pr))
        f3 == KeepIfAll(f2, StarFilter(f2, ms))
    IN  HoleFilter(f3, hf)

\* lines 208-219: `filtered = courses`, then the four stages
ApplyFilters(cs, s, pr, ms, hf) ==
    LET f0 == [ref |-> "courses", items |-> cs]
        f1 == SearchFilter(f0, s)
        f2 == PriceFilter(f1, pr)
        f3 == StarFilter(f2, ms)
    IN  HoleFilter(f3, hf)

\* ------------------------------------------------------------------------
\* Apply Sort (lines 221-231)

SortOptions ==
    {"Name (A-Z)", "Price: Low to High", "Price: High to Low",
     "Rating: High to Low", "Yardage: Long to Short"}

\* reverse=True of the chosen list.sort call
IsReverse(opt) ==
    opt \in {"Price: High to Low", "Rating: High to Low", "Yardage: Long to Short"}

\* key(a) < key(b) for the key= lambda of the chosen list.sort call
KeyLess(opt, a, b) ==
    IF opt = "Name (A-Z)" THEN StrLess(a.name, b.name)
    ELSE IF opt \in {"Price: Low to High", "Price: High to Low"}
    THEN a.weekday_price < b.weekday_price
    ELSE IF opt = "Rating: High to Low" THEN a.star_rating < b.star_rating
    ELSE a.yardage < b.yardage

\* x must come before y: the key comparison, reversed under reverse=True
Precedes(opt, rev, x, y) == IF rev THEN KeyLess(opt, y, x) ELSE KeyLess(opt, x, y)

\* list.sort is stable: x goes after every element it does not strictly precede
RECURSIVE InsertStable(_, _, _, _)
InsertStable(sorted, x, opt, rev) ==
    IF sorted = <<>> THEN <<x>>
    ELSE IF Precedes(opt, rev, x, Head(sorted)) THEN <<x>> \o sorted
    ELSE <<Head(sorted)>> \o InsertStable(Tail(sorted), x, opt, rev)

RECURSIVE StableSort(_, _, _)
StableSort(items, opt, rev) ==
    IF items = <<>> THEN <<>>
    ELSE InsertStable(StableSort(SubSeq(items, 1, Len(items) - 1), opt, rev),
                      items[Len(items)], opt, rev)

Reverse(s) == [i \in 1..Len(s) |-> s[Len(s) + 1 - i]]

\* A descending sort written as an ascending sort followed by a reversal.
ListSortThenReverse(items, opt) ==
    IF IsReverse(opt) THEN Reverse(StableSort(items, opt, FALSE))
    ELSE StableSort(items, opt, FALSE)

\* filtered.sort(key=..., reverse=...), lines 223-231
ListSort(items, opt) == StableSort(items, opt, IsReverse(opt))

\* lines 222-231: the sort is in place: the list object stays the same
ApplySort(f, opt) == [ref |-> f.ref, items |-> ListSort(f.items, opt)]

\* ------------------------------------------------------------------------
\* Google Places API functions (lines 25-110)

None == "None"

\* Python truth value of an optional number: None and 0 / 0.0 are false
Truthy(x) == x # <<>> /\ x[1] # 0

\* `k in d` / d[k] not raising KeyError, for a JSON object d
HasKey(d, k) == k \in DOMAIN d

\* distance > 2.0 (line 73), in tenths of a mile
DistanceLimit == 20

\* calculate_distance (lines 26-36).  Coordinates are kept in arc units of a
\* tenth of a mile on the sphere of radius R = 3959 miles (x units are
\* x / (10 R) radians), and the result is in tenths of a mile.  The model
\* only places a candidate on the meridian of the supplied point, or both on
\* the equator; there the haversine formula is exact and closed:
\*   lon1 = lon2:        a = sin^2(dlat/2),  R c = R |dlat|
\*   lat1 = lat2 = 0:    a = sin^2(dlon/2),  R c = R |dlon|
calculate_distance(lat1, lon1, lat2, lon2) ==
    IF lon1 = lon2 THEN Abs(lat2 - lat1) ELSE Abs(lon2 - lon1)

\* The outcome of a try block: an exception, or a returned value
Raise == [exc |-> TRUE, ret |-> None]

Return(v) == [exc |-> FALSE, ret |-> v]

\* lines 42-80: the try block of get_place_id, given the provider's answer.
\* resp.transport # "ok": requests.get or response.json() raised.
GetPlaceIdTry(latitude, longitude, resp) ==
    IF resp.transport # "ok" THEN Raise
    ELSE LET data == resp.data IN
      IF ~HasKey(data, "status") THEN Raise
      ELSE IF data.status = "OK" /\ HasKey(data, "results") /\ data.results # <<>>
      THEN LET place == data.results[1] IN
        IF ~HasKey(place, "place_id") THEN Raise
        ELSE IF Truthy(latitude) /\ Truthy(longitude)
        THEN IF ~HasKey(place, "geometry") THEN Raise
             ELSE IF ~HasKey(place.geometry, "location") THEN Raise
             ELSE IF calculate_distance(latitude[1], longitude[1],
                                        place.geometry.location.lat,
                                        place.geometry.location.lng) > DistanceLimit
             THEN Return(None)
             ELSE Return(place.place_id)
        ELSE Return(place.place_id)
      ELSE Return(None)

\* An except clause that catches requests' own errors only.
GetPlaceIdCatchTransportOnly(latitude, longitude, resp) ==
    LET r == GetPlaceIdTry(latitude, longitude, resp)
    IN  IF r.exc /\ resp.transport = "ok"
        THEN [raised |-> TRUE, ret |-> None]
        ELSE [raised |-> FALSE, ret |-> r.ret]

\* lines 41-83: the body of get_place_id; `except Exception` returns None
GetPlaceIdBody(latitude, longitude, resp) ==
    LET r == GetPlaceIdTry(latitude, longitude, resp)
    IN  IF r.exc THEN [raised |-> FALSE, ret |-> None]
        ELSE [raised |-> FALSE, ret |-> r.ret]

\* The whole list, whatever max_photos is.
SliceAll(photos, max_photos) == photos

\* photos[:max_photos] (line 101)
Slice(photos, max_photos) ==
    IF max_photos >= 0 THEN SubSeq(photos, 1, Min(max_photos, Len(photos)))
    ELSE SubSeq(photos, 1, Len(photos) + max_photos)

\* lines 89-103: the try block of get_place_photos
GetPlacePhotosTry(max_photos, resp) ==
    IF resp.transport # "ok" THEN Raise
    ELSE LET data == resp.data IN
      IF ~HasKey(data, "status") THEN Raise
      ELSE IF data.status = "OK" /\ HasKey(data, "result")
      THEN LET photos == IF HasKey(data.result, "photos") THEN data.result.photos
                         ELSE <<>>
           IN  Return(Slice(photos, max_photos))
      ELSE Return(<<>>)

\* lines 88-106: the body of get_place_photos; `except Exception` returns []
GetPlacePhotosBody(max_photos, resp) ==
    LET r == GetPlacePhotosTry(max_photos, resp)
    IN  IF r.exc THEN [raised |-> FALSE, ret |-> <<>>]
        ELSE [raised |-> FALSE, ret |-> r.ret]

\* ------------------------------------------------------------------------
\* What the provider may answer

NoData == [nodata |-> TRUE]

Candidate(pid, lat, lng) ==
    [place_id |-> pid, geometry |-> [location |-> [lat |-> lat, lng |-> lng]]]

\* Where the first candidate may lie for a supplied coordinate: on the
\* meridian of the point, 0, 2.0, 2.1 or 3.1 miles away, and on the equator
\* when the point is on it.  With no coordinate the candidate lies anywhere.
CandidateCoords(latitude, longitude) ==
    LET lat == IF latitude = <<>> THEN 24184 ELSE latitude[1]
        lon == IF longitude = <<>> THEN -55278 ELSE longitude[1]
    IN  {<<lat + d, lon>> : d \in {0, DistanceLimit, DistanceLimit + 1, 31}}
        \cup (IF lat = 0 THEN {<<0, lon + DistanceLimit + 1>>} ELSE {})

PlaceResponses(latitude, longitude) ==
    {[transport |-> tr, data |-> NoData] : tr \in {"timeout", "badjson"}}
    \cup {[transport |-> "ok", data |-> d] : d \in
            {[results |-> <<>>]} \cup
            {[status |-> "ZERO_RESULTS", results |-> <<>>]} \cup
            {[status |-> "REQUEST_DENIED", error_message |-> "denied"]} \cup
            {[status |-> "OK"]} \cup
            {[status |-> "OK", results |-> <<>>]} \cup
            {[status |-> "OK", results |-> <<[name |-> "x"]>>]} \cup
            {[status |-> "OK", results |-> <<[place_id |-> "p1"]>>]} \cup
            {[status |-> "OK", results |-> <<[place_id |-> "p1",
                                              geometry |-> [viewport |-> 0]]>>]} \cup
            {[status |-> "OK", results |-> <<Candidate("p1", c[1], c[2])>>] :
                c \in CandidateCoords(latitude, longitude)}}

Photo(i) == [photo_reference |-> i]

PhotoList(n) == [i \in 1..n |-> Photo(i)]

PhotoResponses ==
    {[transport |-> tr, data |-> NoData] : tr \in {"timeout", "badjson"}}
    \cup {[transport |-> "ok", data |-> d] : d \in
            {[result |-> [photos |-> PhotoList(1)]]} \cup
            {[status |-> "NOT_FOUND"]} \cup
            {[status |-> "OK"]} \cup
            {[status |-> "OK", result |-> [name |-> "x"]]} \cup
            {[status |-> "OK", result |-> [photos |-> PhotoList(n)]] : n \in 0..MaxPhotos}}

NoResp == [transport |-> "none", data |-> NoData]

\* ------------------------------------------------------------------------
\* st.cache_data(ttl=3600) (lines 38, 85): results memoised by the full
\* argument tuple; an entry stored at time `at` is served while now - at < ttl.

TTL == 3600

IsFreshNoExpiry(cache, key, t) == key \in DOMAIN cache

IsFresh(cache, key, t) == key \in DOMAIN cache /\ t - cache[key].at < TTL

Store(cache, key, t, v) ==
    [k \in DOMAIN cache \cup {key} |-> IF k = key THEN [at |-> t, value |-> v]
                                       ELSE cache[k]]

EmptyCache == [k \in {} |-> 0]

CacheIdle ==
    /\ now = 0
    /\ placeCache = EmptyCache
    /\ photoCache = EmptyCache

\* get_place_id(course_name, address, latitude, longitude) through its cache
\* (lines 38-83) at time t; resp is the provider's answer if a request is
\* issued.  Gives the cache afterwards and the outcome.
CachedGetPlaceId(cache, t, args, resp) ==
    IF IsFresh(cache, args, t)
    THEN [cache |-> cache, issued |-> FALSE, stale |-> FALSE, resp |-> NoResp,
          raised |-> FALSE, ret |-> cache[args].value]
    ELSE LET r == GetPlaceIdBody(args[3], args[4], resp)
         IN  [cache |-> IF r.raised THEN cache ELSE Store(cache, args, t, r.ret),
              issued |-> TRUE, stale |-> args \in DOMAIN cache, resp |-> resp,
              raised |-> r.raised, ret |-> r.ret]

\* get_place_photos(place_id, max_photos) through its cache (lines 85-106)
CachedGetPlacePhotos(cache, t, args, resp) ==
    IF IsFresh(cache, args, t)
    THEN [cache |-> cache, issued |-> FALSE, stale |-> FALSE, resp |-> NoResp,
          raised |-> FALSE, ret |-> cache[args].value]
    ELSE LET r == GetPlacePhotosBody(args[2], resp)
         IN  [cache |-> IF r.raised THEN cache ELSE Store(cache, args, t, r.ret),
              issued |-> TRUE, stale |-> args \in DOMAIN cache, resp |-> resp,
              raised |-> r.raised, ret |-> r.ret]

\* What lastCall records of a call
CallRecord(fn, args, c) ==
    [fn |-> fn, args |-> args, issued |-> c.issued, stale |-> c.stale,
     resp |-> c.resp, raised |-> c.raised, ret |-> c.ret]

GetPlaceIdCall(args, resp) ==
    LET c == CachedGetPlaceId(placeCache, now, args, resp)
    IN  /\ lastCall' = CallRecord("get_place_id", args, c)
        /\ placeCache' = c.cache

GetPlacePhotosCall(args, resp) ==
    LET c == CachedGetPlacePhotos(photoCache, now, args, resp)
    IN  /\ lastCall' = CallRecord("get_place_photos", args, c)
        /\ photoCache' = c.cache

\* Time passes.
Tick ==
    /\ now + TickStep <= MaxTime
    /\ now' = now + TickStep
    /\ UNCHANGED <<placeCache, photoCache, resolverVars, queryVars, appVars, loadVars>>

NoCall == [fn |-> "none", args |-> <<>>, issued |-> FALSE, stale |-> FALSE,
           resp |-> NoResp, raised |-> FALSE, ret |-> None]

ResolverIdle ==
    /\ lastCall = NoCall
    /\ placeArgs = <<>>
    /\ photoArgs = <<>>

NoLoad == [read |-> FALSE, saw |-> "none", raised |-> FALSE]

LoadIdle ==
    /\ file = [state |-> "ok", records |-> <<>>]
    /\ loadCache = EmptyCache
    /\ loadOutcome = NoLoad
    /\ runStatus = "not_run"

NoSession == [has_showcase |-> FALSE, random_courses_showcase |-> <<>>,
              has_last_selected |-> FALSE]

AppIdle ==
    /\ started = FALSE
    /\ GOOGLE_API_KEY = "key"
    /\ world = <<>>
    /\ session = NoSession
    /\ selected_option = <<>>
    /\ verifyCache = EmptyCache
    /\ trace = <<>>

QueryIdle ==
    /\ dataset = <<>>
    /\ courses = <<>>
    /\ search = <<>>
    /\ price_range = <<0, 0>>
    /\ min_stars = 10
    /\ hole_filter = "All"
    /\ sort_option = "Name (A-Z)"
    /\ filtered = <<>>
    /\ filteredRef = "fresh"

\* ---- The resolvers as functions of their arguments and the answer

\* (latitude, longitude) as the callers pass them: course.get('latitude')
CoordInputs ==
    {<<<<>>, <<>>>>, <<<<24184>>, <<-55278>>>>, <<<<0>>, <<-55278>>>>,
     <<<<24184>>, <<0>>>>, <<<<24184>>, <<>>>>}

PlaceArgInputs == {<<<<65, 98>>, "1 Main St", c[1], c[2]>> : c \in CoordInputs}

PhotoArgInputs == {<<"p1", m>> : m \in {0, 1, 2, 5}}

ResolvePlace ==
    /\ \E resp \in PlaceResponses(placeArgs[3], placeArgs[4]) :
          GetPlaceIdCall(placeArgs, resp)
    /\ UNCHANGED <<now, photoCache, placeArgs, photoArgs, queryVars, appVars, loadVars>>

ResolvePhotos ==
    /\ \E resp \in PhotoResponses : GetPlacePhotosCall(photoArgs, resp)
    /\ UNCHANGED <<now, placeCache, placeArgs, photoArgs, queryVars, appVars, loadVars>>

ResolverInit ==
    /\ QueryIdle
    /\ CacheIdle
    /\ AppIdle
    /\ LoadIdle
    /\ lastCall = NoCall
    /\ placeArgs \in PlaceArgInputs
    /\ photoArgs \in PhotoArgInputs

ResolverNext ==
    \/ ResolvePlace
    \/ ResolvePhotos
    \/ Tick

SpecResolver == ResolverInit /\ [][ResolverNext]_vars

\* ------------------------------------------------------------------------
\* Claims about the resolvers

\* The last call was a get_place_id call that issued a request.
PlaceRequested == lastCall.fn = "get_place_id" /\ lastCall.issued

\* The last call was a get_place_photos call that issued a request.
PhotosRequested == lastCall.fn = "get_place_photos" /\ lastCall.issued

\* The answer is OK with a first candidate that has its place_id and its
\* coordinate.
OkWithCandidate(resp) ==
    /\ resp.transport = "ok"
    /\ HasKey(resp.data, "status")
    /\ resp.data.status = "OK"
    /\ HasKey(resp.data, "results")
    /\ resp.data.results # <<>>
    /\ HasKey(resp.data.results[1], "place_id")
    /\ HasKey(resp.data.results[1], "geometry")
    /\ HasKey(resp.data.results[1].geometry, "location")

\* Distance, in tenths of a mile, from the supplied coordinate of the last
\* call to the first candidate of its answer.
CandidateDistance ==
    LET loc == lastCall.resp.data.results[1].geometry.location
    IN  calculate_distance(lastCall.args[3][1], lastCall.args[4][1], loc.lat, loc.lng)

\* C4: with a latitude and a longitude supplied (0.0 included) and an OK
\* answer with a candidate, get_place_id returns None exactly when the
\* candidate is more than 2.0 miles away, and the candidate's place_id
\* otherwise.
C4_DistanceRule ==
    (/\ PlaceRequested
     /\ lastCall.args[3] # <<>>
     /\ lastCall.args[4] # <<>>
     /\ OkWithCandidate(lastCall.resp))
    => /\ (lastCall.ret = None) <=> (CandidateDistance > 20)
       /\ lastCall.ret # None => lastCall.ret = lastCall.resp.data.results[1].place_id

\* The answer is a failure that names no usable place: transport failure,
\* missing status, non-OK status, missing or empty results, or a first
\* candidate without place_id.
PlaceLookupFailed(resp) ==
    \/ resp.transport # "ok"
    \/ ~HasKey(resp.data, "status")
    \/ resp.data.status # "OK"
    \/ ~HasKey(resp.data, "results")
    \/ resp.data.results = <<>>
    \/ ~HasKey(resp.data.results[1], "place_id")

\* The answer is OK and its first candidate has a place_id but no coordinate.
GeometryMissing(resp) ==
    /\ ~PlaceLookupFailed(resp)
    /\ \/ ~HasKey(resp.data.results[1], "geometry")
       \/ ~HasKey(resp.data.results[1].geometry, "location")

\* The photo answer is a failure: transport failure, missing status, non-OK
\* status or missing result.
PhotoLookupFailed(resp) ==
    \/ resp.transport # "ok"
    \/ ~HasKey(resp.data, "status")
    \/ resp.data.status # "OK"
    \/ ~HasKey(resp.data, "result")

\* C5 as stated: every failed or malformed answer, a candidate without
\* geometry included, makes get_place_id return None and get_place_photos
\* return the empty sequence, and neither raises.
C5_NoFailurePropagated ==
    /\ ~lastCall.raised
    /\ (PlaceRequested /\ (PlaceLookupFailed(lastCall.resp) \/ GeometryMissing(lastCall.resp)))
          => lastCall.ret = None
    /\ (PhotosRequested /\ PhotoLookupFailed(lastCall.resp)) => lastCall.ret = <<>>

\* C5 amended: neither resolver raises; get_place_photos returns the empty
\* sequence and get_place_id returns None on every failed answer; a candidate
\* without geometry gives None exactly when the distance verification runs
\* (latitude and longitude both given and non-zero) and its place_id
\* otherwise.
C5_NoFailureRaised ==
    /\ ~lastCall.raised
    /\ (PlaceRequested /\ PlaceLookupFailed(lastCall.resp)) => lastCall.ret = None
    /\ (PlaceRequested /\ GeometryMissing(lastCall.resp))
          => IF Truthy(lastCall.args[3]) /\ Truthy(lastCall.args[4])
             THEN lastCall.ret = None
             ELSE lastCall.ret = lastCall.resp.data.results[1].place_id
    /\ (PhotosRequested /\ PhotoLookupFailed(lastCall.resp)) => lastCall.ret = <<>>

\* A request with both coordinates was answered OK by a candidate that has a
\* place_id and no geometry, and the lookup gave None.
C5_Witness ==
    /\ PlaceRequested
    /\ GeometryMissing(lastCall.resp)
    /\ Truthy(lastCall.args[3])
    /\ Truthy(lastCall.args[4])
    /\ lastCall.ret = None

\* C10: on an OK answer whose result holds n photos, get_place_photos returns
\* the first min(max_photos, n) of them in order, never more than max_photos;
\* without a photos field it returns the empty sequence.
C10_PhotosTruncated ==
    (PhotosRequested /\ ~PhotoLookupFailed(lastCall.resp))
    => LET res == lastCall.resp.data.result
           maxCount == lastCall.args[2]
           ret == lastCall.ret
       IN  IF HasKey(res, "photos")
           THEN /\ Len(ret) = Min(maxCount, Len(res.photos))
                /\ Len(ret) <= maxCount
                /\ \A i \in 1..Len(ret) : ret[i] = res.photos[i]
           ELSE ret = <<>>

\* More photos were offered than asked for, and some were asked for.
C10_Witness ==
    /\ PhotosRequested
    /\ ~PhotoLookupFailed(lastCall.resp)
    /\ HasKey(lastCall.resp.data.result, "photos")
    /\ lastCall.args[2] > 0
    /\ Len(lastCall.resp.data.result.photos) > lastCall.args[2]
    /\ Len(lastCall.ret) = lastCall.args[2]

\* ---- Sequences of resolver calls and clock advances over a few arguments

\* Two argument tuples that differ in the longitude only.
CachePlaceArgs ==
    {<<<<65, 98>>, "1 Main St", <<24184>>, <<-55278>>>>,
     <<<<65, 98>>, "1 Main St", <<24184>>, <<>>>>}

\* Two argument tuples that differ in max_photos only.
CachePhotoArgs == {<<"p1", 1>>, <<"p1", 5>>}

CachePlaceResponses ==
    {[transport |-> "ok", data |-> [status |-> "ZERO_RESULTS", results |-> <<>>]],
     [transport |-> "ok", data |-> [status |-> "OK",
                                    results |-> <<Candidate("p1", 24184, -55278)>>]]}

CachePhotoResponses ==
    {[transport |-> "timeout", data |-> NoData],
     [transport |-> "ok", data |-> [status |-> "OK", result |-> [photos |-> PhotoList(2)]]]}

CallPlace ==
    /\ \E args \in CachePlaceArgs, resp \in CachePlaceResponses :
          GetPlaceIdCall(args, resp)
    /\ UNCHANGED <<now, photoCache, placeArgs, photoArgs, queryVars, appVars, loadVars>>

CallPhotos ==
    /\ \E args \in CachePhotoArgs, resp \in CachePhotoResponses :
          GetPlacePhotosCall(args, resp)
    /\ UNCHANGED <<now, placeCache, placeArgs, photoArgs, queryVars, appVars, loadVars>>

CacheInit ==
    /\ QueryIdle
    /\ CacheIdle
    /\ ResolverIdle
    /\ AppIdle
    /\ LoadIdle

CacheNext ==
    \/ CallPlace
    \/ CallPhotos
    \/ Tick

SpecCache == CacheInit /\ [][CacheNext]_vars

\* C6: a resolver call issues a request exactly when its cache holds no
\* entry for its full argument tuple stored less than 3600 seconds ago; a
\* call served from the cache returns the stored value; after every call an
\* entry for the arguments is in the cache, stored less than 3600 seconds
\* ago, whatever was returned (so a second call inside the window issues
\* nothing); a call touches no other entry.
C6_CacheTTL ==
    [][now' = now =>
        LET c == lastCall'
            before == IF c.fn = "get_place_id" THEN placeCache ELSE photoCache
            after == IF c.fn = "get_place_id" THEN placeCache' ELSE photoCache'
            servable == c.args \in DOMAIN before /\ now - before[c.args].at < 3600
        IN  /\ c.issued <=> ~servable
            /\ ~c.issued => c.ret = before[c.args].value
            /\ c.args \in DOMAIN after
            /\ now - after[c.args].at < 3600
            /\ c.issued => after[c.args] = [at |-> now, value |-> c.ret]
            /\ \A k \in DOMAIN before \ {c.args} :
                  k \in DOMAIN after /\ after[k] = before[k]
            /\ c.fn = "get_place_id" => photoCache' = photoCache
            /\ c.fn = "get_place_photos" => placeCache' = placeCache]_vars

\* A lookup found its entry expired and issued a new request, while a
\* NotFound stored earlier for other arguments is still in the cache.
C6_Witness ==
    /\ PlaceRequested
    /\ lastCall.stale
    /\ \E k \in DOMAIN placeCache :
          /\ k # lastCall.args
          /\ placeCache[k].value = None
          /\ placeCache[k].at < now

\* ------------------------------------------------------------------------
\* One run of the query section with the given widget values.

QueryResult(s, pr, ms, hf, so) == ApplySort(ApplyFilters(dataset, s, pr, ms, hf), so)

RunQuery(s, pr, ms, hf, so) ==
    LET r == QueryResult(s, pr, ms, hf, so)
    IN  /\ search' = s
        /\ price_range' = pr
        /\ min_stars' = ms
        /\ hole_filter' = hf
        /\ sort_option' = so
        /\ filtered' = r.items
        /\ filteredRef' = r.ref
        \* line 119 binds `courses` to the loaded list; an in-place sort of
        \* that same list object changes it
        /\ courses' = IF r.ref = "courses" THEN r.items ELSE dataset
        /\ UNCHANGED <<dataset, cacheVars, resolverVars, appVars, loadVars>>

\* Widget inputs
SearchInputs == {<<>>, <<97>>, <<65, 66>>}     \* "", "a", "AB"

Prices(d) == {d[i].weekday_price : i \in 1..Len(d)}

MinPrice(d) == CHOOSE p \in Prices(d) : \A q \in Prices(d) : p <= q

MaxPrice(d) == CHOOSE p \in Prices(d) : \A q \in Prices(d) : p >= q

\* slider values: a pair low <= high inside [min_price, max_price]
PriceInputs(d) ==
    {pr \in (Prices(d) \cup {MinPrice(d) + 1}) \X (Prices(d) \cup {MaxPrice(d) - 1}) :
        pr[1] <= pr[2]}

StarInputs == {10, 40, 45}

HoleInputs == {"All", "9-Hole Only", "18-Hole Only"}

SetSearch ==
    \E s \in SearchInputs :
        RunQuery(s, price_range, min_stars, hole_filter, sort_option)

SetPriceRange ==
    \E pr \in PriceInputs(dataset) :
        RunQuery(search, pr, min_stars, hole_filter, sort_option)

SetMinStars ==
    \E ms \in StarInputs :
        RunQuery(search, price_range, ms, hole_filter, sort_option)

SetHoleFilter ==
    \E hf \in HoleInputs :
        RunQuery(search, price_range, min_stars, hf, sort_option)

SetSortOption ==
    \E so \in SortOptions :
        RunQuery(search, price_range, min_stars, hole_filter, so)

\* The first run: every widget at its default.
QueryInit ==
    /\ dataset \in Datasets
    /\ search = <<>>
    /\ price_range = <<MinPrice(dataset), MaxPrice(dataset)>>
    /\ min_stars = 10
    /\ hole_filter = "All"
    /\ sort_option = "Name (A-Z)"
    /\ filtered = QueryResult(search, price_range, min_stars, hole_filter, sort_option).items
    /\ filteredRef = QueryResult(search, price_range, min_stars, hole_filter, sort_option).ref
    /\ courses = IF filteredRef = "courses" THEN filtered ELSE dataset
    /\ CacheIdle
    /\ ResolverIdle
    /\ AppIdle
    /\ LoadIdle

QueryNext ==
    \/ SetSearch
    \/ SetPriceRange
    \/ SetMinStars
    \/ SetHoleFilter
    \/ SetSortOption

SpecQuery == QueryInit /\ [][QueryNext]_vars

\* ------------------------------------------------------------------------
\* Claims about the query engine

\* The conjunction of the active predicates of the current widget values.
Passes(c) ==
    /\ (search = <<>> \/ StrIn(Lower(search), Lower(c.name)))
    /\ price_range[1] <= c.weekday_price
    /\ c.weekday_price <= price_range[2]
    /\ c.star_rating >= min_stars
    /\ (hole_filter = "9-Hole Only" => c.holes = 9)
    /\ (hole_filter = "18-Hole Only" => c.holes = 18)

\* C1: the filtered result holds exactly the loaded records that satisfy
\* every active predicate (search, price range, minimum stars, hole mode),
\* each once.
C1_FilterExact ==
    /\ Range(filtered) = {c \in Range(dataset) : Passes(c)}
    /\ Len(filtered) = Cardinality(Range(filtered))

\* A search, a narrowed price range, a star minimum and a hole mode are all
\* active, one record passes and another is dropped.
C1_Witness ==
    /\ search # <<>>
    /\ hole_filter # "All"
    /\ min_stars > 10
    /\ price_range # <<MinPrice(dataset), MaxPrice(dataset)>>
    /\ filtered # <<>>
    /\ Len(filtered) < Len(dataset)

\* C2: after the filter and the in-place sort the loaded collection is as
\* loaded, the result is another list object, and it is no longer than the
\* input.
C2_InputUnchanged ==
    /\ courses = dataset
    /\ filteredRef # "courses"
    /\ Len(filtered) <= Len(dataset)

\* No filter is active and the sort has put the records in another order
\* than the load order.
C2_Witness ==
    /\ search = <<>>
    /\ hole_filter = "All"
    /\ sort_option = "Price: High to Low"
    /\ Range(filtered) = Range(dataset)
    /\ filtered # dataset

\* key(a) = key(b) under the chosen sort option
SameKey(a, b) ==
    IF sort_option = "Name (A-Z)" THEN a.name = b.name
    ELSE IF sort_option \in {"Price: Low to High", "Price: High to Low"}
    THEN a.weekday_price = b.weekday_price
    ELSE IF sort_option = "Rating: High to Low" THEN a.star_rating = b.star_rating
    ELSE a.yardage = b.yardage

\* C3: the result is ordered by the chosen key (descending for the three
\* high-to-low options) and records with equal keys keep their load order.
C3_StableOrder ==
    \A i, j \in 1..Len(filtered) :
        i < j =>
            /\ IF IsReverse(sort_option)
               THEN ~KeyLess(sort_option, filtered[i], filtered[j])
               ELSE ~KeyLess(sort_option, filtered[j], filtered[i])
            /\ SameKey(filtered[i], filtered[j])
                   => IndexOf(dataset, filtered[i]) < IndexOf(dataset, filtered[j])

\* A descending sort of a result with two records of equal key and a third
\* of another key, the equal ones not next to each other in load order.
C3_Witness ==
    /\ IsReverse(sort_option)
    /\ Len(filtered) = 3
    /\ \E i, j, k \in 1..3 :
          /\ i < j
          /\ SameKey(filtered[i], filtered[j])
          /\ ~SameKey(filtered[i], filtered[k])
          /\ IndexOf(dataset, filtered[j]) - IndexOf(dataset, filtered[i]) = 2

\* ------------------------------------------------------------------------
\* The script as a whole: dev tools, filters, sort and photo gallery

\* The courses of the running application.
AppCourses ==
    << Course(<<65, 98>>, "1 Main St",  45, 40, 18, 6500, <<24184>>, <<-55278>>),
       Course(<<97, 66>>, "2 Oak Ave",  25, 35,  9, 3000, <<>>,      <<>>) >>

\* The courses of a club with several courses at one address: more of them
\* than the showcase holds.
ClubCourses ==
    << Course(<<65, 98>>, "1 Main St",  45, 40, 18, 6500, <<24184>>, <<-55278>>),
       Course(<<97, 66>>, "2 Oak Ave",  25, 35,  9, 3000, <<>>,      <<>>),
       Course(<<67>>,     "2 Oak Ave",  30, 35, 18, 6000, <<>>,      <<>>),
       Course(<<68>>,     "2 Oak Ave",  35, 40,  9, 3100, <<>>,      <<>>),
       Course(<<69>>,     "2 Oak Ave",  40, 30, 18, 6200, <<>>,      <<>>),
       Course(<<70>>,     "2 Oak Ave",  50, 45, 18, 6800, <<>>,      <<>>) >>

AppDatasets == {AppCourses, ClubCourses}

\* The provider's identifier of a course's venue.
PlaceIdOf(course) == IF course.address = "1 Main St" THEN "p1" ELSE "p2"

PlaceIds == {"p1", "p2"}

\* A venue is unknown to the provider, known without photos, or known with
\* photos.
Worlds == [PlaceIds -> {"notfound", "nophotos", "photos"}]

Denied == [transport |-> "ok",
           data |-> [status |-> "REQUEST_DENIED", error_message |-> "denied"]]

\* The text search answer for a course (lines 58-59); a request without a
\* key is denied.
WorldPlaceResp(course) ==
    IF GOOGLE_API_KEY = None THEN Denied
    ELSE IF world[PlaceIdOf(course)] = "notfound"
    THEN [transport |-> "ok", data |-> [status |-> "ZERO_RESULTS", results |-> <<>>]]
    ELSE [transport |-> "ok",
          data |-> [status |-> "OK",
                    results |-> <<Candidate(PlaceIdOf(course), 24184, -55278)>>]]

\* The place details answer for a place (lines 95-96)
WorldPhotoResp(pid) ==
    IF GOOGLE_API_KEY = None THEN Denied
    ELSE IF world[pid] = "photos"
    THEN [transport |-> "ok",
          data |-> [status |-> "OK", result |-> [photos |-> PhotoList(2)]]]
    ELSE [transport |-> "ok", data |-> [status |-> "OK", result |-> [name |-> "x"]]]

\* What a run leaves in the trace
Request(api, batch) == [ev |-> "request", api |-> api, batch |-> batch]

Sleep(batch) == [ev |-> "sleep", api |-> "none", batch |-> batch]

PhotoUrl(batch) == [ev |-> "photo_url", api |-> "none", batch |-> batch]

\* A call of a resolver, served from its cache or not; of: the course name
\* given to get_place_id, the place id given to get_place_photos.
Call(fn, of, batch) == [ev |-> "call", api |-> fn, batch |-> batch, of |-> of]

\* The state a run threads through its lookups: the two caches, the trace,
\* and the list the loop at hand builds.
\* Below, CHOOSE r \in {e(x) : x \in {v}} : TRUE is e(x) with x bound to the
\* value of v, so that v is worked out once.
RunState(place, photo, tr) == [place |-> place, photo |-> photo, trace |-> tr, acc |-> <<>>]

\* get_place_id(course['name'], course['address'], course.get('latitude'),
\* course.get('longitude')) as the loops and the gallery call it
LookupPlace(st, course, batch) ==
    CHOOSE r \in
        {[st |-> [st EXCEPT !.place = c.cache,
                            !.trace = IF c.issued
                                      THEN @ \o <<Call("get_place_id", course.name, batch),
                                                  Request("textsearch", batch)>>
                                      ELSE Append(@, Call("get_place_id", course.name, batch))],
          ret |-> c.ret] :
         c \in {CachedGetPlaceId(st.place, now,
                                 <<course.name, course.address, course.latitude,
                                   course.longitude>>,
                                 WorldPlaceResp(course))}} : TRUE

\* get_place_photos(place_id, max_photos=n)
LookupPhotos(st, pid, n, batch) ==
    CHOOSE r \in
        {[st |-> [st EXCEPT !.photo = c.cache,
                            !.trace = IF c.issued
                                      THEN @ \o <<Call("get_place_photos", pid, batch),
                                                  Request("details", batch)>>
                                      ELSE Append(@, Call("get_place_photos", pid, batch))],
          ret |-> c.ret] :
         c \in {CachedGetPlacePhotos(st.photo, now, <<pid, n>>, WorldPhotoResp(pid))}} : TRUE

\* get_photo_url once per element of a list (lines 392-395, 445-448)
BuildUrls(tr, n, batch) == tr \o [i \in 1..n |-> PhotoUrl(batch)]

\* lines 133-140, once place_id is known
VerifyPhotos(p, course) ==
    CHOOSE r \in
        {[ph.st EXCEPT
            !.acc = Append(@, [name |-> course.name, has_place_id |-> p.ret # None,
                               place_id |-> p.ret, photo_count |-> Len(ph.ret)]),
            !.trace = Append(@, Sleep("verify"))] :
         ph \in {IF p.ret # None THEN LookupPhotos(p.st, p.ret, 1, "verify")
                 ELSE [st |-> p.st, ret |-> <<>>]}} : TRUE

\* One pass of the loop of verify_all_courses_photos (lines 126-140)
VerifyCourse(st, course) ==
    CHOOSE r \in {VerifyPhotos(p, course) : p \in {LookupPlace(st, course, "verify")}} : TRUE

RECURSIVE VerifyLoop(_, _)
VerifyLoop(st, cs) ==
    IF cs = <<>> THEN st
    ELSE CHOOSE r \in {VerifyLoop(s, Tail(cs)) : s \in {VerifyCourse(st, Head(cs))}} : TRUE

\* verify_all_courses_photos() through its cache (lines 122-141): gives the
\* run state and the verify cache afterwards
VerifyAll(st, vcache, cs) ==
    IF IsFresh(vcache, <<>>, now) THEN [st |-> st, vcache |-> vcache]
    ELSE CHOOSE r \in
            {[st |-> s, vcache |-> Store(vcache, <<>>, now, s.acc)] :
             s \in {VerifyLoop([st EXCEPT !.acc = <<>>], cs)}} : TRUE

\* lines 380-387, once place_id is known
PreviewPhotos(p, course) ==
    IF p.ret # None
    THEN CHOOSE r \in
            {[ph.st EXCEPT
                !.acc = IF ph.ret # <<>>
                        THEN Append(@, [course |-> course,
                                        photo_ref |-> ph.ret[1].photo_reference])
                        ELSE @,
                !.trace = Append(@, Sleep("preview"))] :
             ph \in {LookupPhotos(p.st, p.ret, 1, "preview")}} : TRUE
    ELSE p.st

\* One pass of the featured preview loop (lines 373-387)
PreviewCourse(st, course) ==
    CHOOSE r \in {PreviewPhotos(p, course) : p \in {LookupPlace(st, course, "preview")}} : TRUE

RECURSIVE PreviewLoop(_, _)
PreviewLoop(st, cs) ==
    IF cs = <<>> THEN st
    ELSE CHOOSE r \in {PreviewLoop(s, Tail(cs)) : s \in {PreviewCourse(st, Head(cs))}} : TRUE

\* STATE A (lines 364-401): the preview of the stored showcase
GalleryPreview(st, showcase) ==
    CHOOSE r \in
        {[s EXCEPT !.trace = BuildUrls(@, Len(s.acc), "preview")] :
         s \in {PreviewLoop([st EXCEPT !.acc = <<>>], showcase)}} : TRUE

\* lines 433-448, once place_id is known
SelectedPhotos(p) ==
    IF p.ret = None THEN p.st
    ELSE CHOOSE r \in
            {[ph.st EXCEPT !.trace = BuildUrls(@, Len(ph.ret), "selected")] :
             ph \in {LookupPhotos(p.st, p.ret, 5, "selected")}} : TRUE

\* STATE B and C (lines 404-465): the selected course
GallerySelected(st, selected_course) ==
    CHOOSE r \in {SelectedPhotos(p) : p \in {LookupPlace(st, selected_course, "selected")}} : TRUE

\* random.sample(filtered, min(5, len(filtered))) (line 346)
ShowcaseSize == 5

Samples(items) ==
    DistinctSeqs(Range(items), Min(ShowcaseSize, Len(items)), Min(ShowcaseSize, Len(items)))

\* The outcomes of random.sample the runs draw from: k consecutive items
\* taken forwards or backwards around the list, from its first or its last
\* item.
Pick(items, o, d) ==
    [i \in 1..Min(ShowcaseSize, Len(items)) |->
        items[((o - 1 + d * (i - 1) + Len(items)) % Len(items)) + 1]]

SampleInputs(items) == {Pick(items, o, d) : o \in {1, Len(items)}, d \in {1, -1}}

\* A run that samples on every run, whatever the session holds.
ShowcaseResample(sess, sample) == sample

\* The showcase a gallery run works with (lines 345-346, 369): the stored one,
\* or the sample drawn now when the session has none.
Showcase(sess, sample) ==
    IF sess.has_showcase THEN sess.random_courses_showcase ELSE sample

\* next(c for c in filtered if c['name'] == selected_option) (line 405)
FirstNamed(items, n) == items[CHOOSE i \in 1..Len(items) :
                                /\ items[i].name = n
                                /\ \A j \in 1..(i - 1) : items[j].name # n]

Names(items) == {items[i].name : i \in 1..Len(items)}

\* One run of the script: the verify button (lines 149-152), the filters and
\* the sort (lines 166-231), the gallery (lines 338-465).  button: the verify
\* button was pressed; sel: the selectbox value asked for; sample: what
\* random.sample gives if it is called.
AppRun(hf, so, button, sel, sample) ==
    \E v \in {IF button
              THEN VerifyAll(RunState(placeCache, photoCache, <<>>), verifyCache, dataset)
              ELSE [st |-> RunState(placeCache, photoCache, <<>>),
                    vcache |-> verifyCache]} :
    \E q \in {QueryResult(search, price_range, min_stars, hf, so)} :
    \* a value that is no longer an option falls back to None
    \E choice \in {IF GOOGLE_API_KEY # None /\ sel # <<>> /\ sel[1] \in Names(q.items)
                   THEN sel ELSE <<>>} :
    \E showcase \in {Showcase(session, sample)} :
    \E g \in {IF GOOGLE_API_KEY = None THEN v.st
              ELSE IF choice = <<>> THEN GalleryPreview(v.st, showcase)
              ELSE GallerySelected(v.st, FirstNamed(q.items, choice[1]))} :
        /\ hole_filter' = hf
        /\ sort_option' = so
        /\ filtered' = q.items
        /\ filteredRef' = q.ref
        /\ courses' = IF q.ref = "courses" THEN q.items ELSE dataset
        /\ verifyCache' = v.vcache
        /\ session' = IF GOOGLE_API_KEY # None
                      THEN [has_showcase |-> TRUE, random_courses_showcase |-> showcase,
                            has_last_selected |-> TRUE]
                      ELSE session
        /\ selected_option' = choice
        /\ placeCache' = g.place
        /\ photoCache' = g.photo
        /\ trace' = g.trace
        /\ started' = TRUE
        /\ UNCHANGED <<dataset, search, price_range, min_stars, now, GOOGLE_API_KEY,
                       world, resolverVars, loadVars>>

\* What random.sample may give in a run with these widget values.
SamplesFor(hf, so) == SampleInputs(QueryResult(search, price_range, min_stars, hf, so).items)

\* The first run of a session: every widget at its default.
FirstRun ==
    /\ ~started
    /\ \E sample \in SamplesFor("All", "Name (A-Z)") :
          AppRun("All", "Name (A-Z)", FALSE, <<>>, sample)

ChangeHoleFilter ==
    /\ started
    /\ \E hf \in HoleInputs :
          \E sample \in SamplesFor(hf, sort_option) :
              AppRun(hf, sort_option, FALSE, selected_option, sample)

ChangeSortOption ==
    /\ started
    /\ \E so \in {"Name (A-Z)", "Price: High to Low"} :
          \E sample \in SamplesFor(hole_filter, so) :
              AppRun(hole_filter, so, FALSE, selected_option, sample)

SelectCourse ==
    /\ started
    /\ GOOGLE_API_KEY # None
    /\ \E sel \in {<<>>} \cup {<<n>> : n \in Names(filtered)},
          sample \in SamplesFor(hole_filter, sort_option) :
          AppRun(hole_filter, sort_option, FALSE, sel, sample)

PressVerify ==
    /\ started
    /\ \E sample \in SamplesFor(hole_filter, sort_option) :
          AppRun(hole_filter, sort_option, TRUE, selected_option, sample)

\* An hour passes between two runs.
HourPasses ==
    /\ started
    /\ now + TTL <= MaxTime
    /\ now' = now + TTL
    /\ UNCHANGED <<placeCache, photoCache, resolverVars, queryVars, appVars, loadVars>>

AppInit ==
    /\ dataset = AppCourses
    /\ courses = dataset
    /\ search = <<>>
    /\ price_range = <<MinPrice(dataset), MaxPrice(dataset)>>
    /\ min_stars = 10
    /\ hole_filter = "All"
    /\ sort_option = "Name (A-Z)"
    /\ filtered = <<>>
    /\ filteredRef = "courses"
    /\ CacheIdle
    /\ ResolverIdle
    /\ started = FALSE
    /\ GOOGLE_API_KEY \in {None, "key"}
    /\ world \in Worlds
    /\ session = NoSession
    /\ selected_option = <<>>
    /\ verifyCache = EmptyCache
    /\ trace = <<>>
    /\ LoadIdle

AppNext ==
    \/ FirstRun
    \/ ChangeHoleFilter
    \/ ChangeSortOption
    \/ SelectCourse
    \/ PressVerify
    \/ HourPasses

SpecApp == AppInit /\ [][AppNext]_vars

\* ------------------------------------------------------------------------
\* Claims about the script as a whole

\* C7: in the preview loop and in verify_all_courses_photos, a pause lies
\* between every two consecutive requests that are issued.
C7_PauseBetweenRequests ==
    \A i, j \in 1..Len(trace) :
        (/\ i < j
         /\ trace[i].ev = "request"
         /\ trace[j].ev = "request"
         /\ trace[i].batch = trace[j].batch
         /\ trace[i].batch \in {"preview", "verify"})
        => \E k \in (i + 1)..(j - 1) : trace[k].ev = "sleep"

\* C8: without an API key no run issues a place-search or place-details
\* request and none builds a photo URL.
C8_NoKeyNoLookup ==
    GOOGLE_API_KEY = None
    => \A i \in 1..Len(trace) : trace[i].ev \notin {"request", "photo_url"}

\* ------------------------------------------------------------------------
\* The featured showcase of the photo gallery (lines 344-346, 363-387)

\* A session over either course list with the clock standing still.  The
\* clock only decides whether a lookup is served from its cache.
ShowcaseInit ==
    /\ dataset \in AppDatasets
    /\ courses = dataset
    /\ search = <<>>
    /\ price_range = <<MinPrice(dataset), MaxPrice(dataset)>>
    /\ min_stars = 10
    /\ hole_filter = "All"
    /\ sort_option = "Name (A-Z)"
    /\ filtered = <<>>
    /\ filteredRef = "courses"
    /\ CacheIdle
    /\ ResolverIdle
    /\ started = FALSE
    /\ GOOGLE_API_KEY \in {None, "key"}
    /\ world \in Worlds
    /\ session = NoSession
    /\ selected_option = <<>>
    /\ verifyCache = EmptyCache
    /\ trace = <<>>
    /\ LoadIdle

ShowcaseNext ==
    \/ FirstRun
    \/ ChangeHoleFilter
    \/ ChangeSortOption
    \/ SelectCourse
    \/ PressVerify

SpecShowcase == ShowcaseInit /\ [][ShowcaseNext]_vars

\* s is a sample of items without repetition, of size min(5, len(items)).
IsSample(s, items) ==
    /\ Len(s) = Min(ShowcaseSize, Len(items))
    /\ \A i \in 1..Len(s) : s[i] \in Range(items)
    /\ \A i, j \in 1..Len(s) : i # j => s[i] # s[j]

\* What the calls of resolver fn in the preview loop of a run were made for,
\* in the order of the calls.
PreviewCalls(tr, fn) ==
    LET IsCall(e) == e.ev = "call" /\ e.batch = "preview" /\ e.api = fn
        calls == SelectSeq(tr, IsCall)
    IN  [i \in 1..Len(calls) |-> calls[i].of]

\* The place id get_place_id last gave for a course, None included.
PlaceFound(cache, course) ==
    cache[<<course.name, course.address, course.latitude, course.longitude>>].value

\* The place ids found for the courses of a list, in the order of the list.
RECURSIVE FoundPlaces(_, _)
FoundPlaces(cache, cs) ==
    IF cs = <<>> THEN <<>>
    ELSE IF PlaceFound(cache, Head(cs)) # None
    THEN <<PlaceFound(cache, Head(cs))>> \o FoundPlaces(cache, Tail(cs))
    ELSE FoundPlaces(cache, Tail(cs))

\* The showcase is stored by the first gallery run with a key, as a sample
\* of the filtered result of that run, and never changes afterwards.
ShowcaseWrittenOnce ==
    /\ session'.has_showcase <=> (started' /\ GOOGLE_API_KEY # None)
    /\ (~session.has_showcase /\ session'.has_showcase)
       => IsSample(session'.random_courses_showcase, filtered')
    /\ session.has_showcase
       => /\ session'.has_showcase
          /\ session'.random_courses_showcase = session.random_courses_showcase

\* A run of the preview loop calls get_place_id once for each course of the
\* stored showcase, in the stored order.
PlaceLookupsFollowShowcase ==
    (session.has_showcase /\ selected_option = <<>>)
    => PreviewCalls(trace, "get_place_id")
       = [i \in 1..Len(session.random_courses_showcase) |->
             session.random_courses_showcase[i].name]

\* C11 (as stated): the showcase is written once, as a sample without
\* repetition of min(5, size of the filtered result) courses, no later run
\* changes it, and the preview loop makes a place lookup and a photo lookup
\* for every course of the stored showcase, in the stored order.
C11_LookupsForEveryShowcaseCourse ==
    [][/\ ShowcaseWrittenOnce
       /\ PlaceLookupsFollowShowcase'
       /\ (session'.has_showcase /\ selected_option' = <<>>)
          => PreviewCalls(trace', "get_place_photos")
             = [i \in 1..Len(session'.random_courses_showcase) |->
                   PlaceIdOf(session'.random_courses_showcase[i])]]_vars

\* C11 (amended): the showcase is written once, as a sample without
\* repetition of min(5, size of the filtered result) courses, and no later
\* run changes it; the preview loop makes a place lookup for every course of
\* the stored showcase, in the stored order, and a photo lookup for exactly
\* those of them whose place lookup gave a place id.
C11_ShowcaseFixed ==
    [][/\ ShowcaseWrittenOnce
       /\ PlaceLookupsFollowShowcase'
       /\ (session'.has_showcase /\ selected_option' = <<>>)
          => PreviewCalls(trace', "get_place_photos")
             = FoundPlaces(placeCache', session'.random_courses_showcase)]_vars

\* A later run whose filtered result is smaller than, and ordered unlike,
\* the stored showcase of five courses out of six, one of them unknown to
\* the provider, has run the preview loop.
C11_Witness ==
    /\ Len(dataset) > ShowcaseSize
    /\ session.has_showcase
    /\ Len(session.random_courses_showcase) = ShowcaseSize
    /\ hole_filter = "9-Hole Only"
    /\ sort_option = "Price: High to Low"
    /\ Len(filtered) < ShowcaseSize
    /\ selected_option = <<>>
    /\ session.random_courses_showcase[1] # dataset[1]
    /\ dataset[1] \in Range(session.random_courses_showcase)
    /\ Len(PreviewCalls(trace, "get_place_id")) = ShowcaseSize
    /\ Len(PreviewCalls(trace, "get_place_photos")) = ShowcaseSize - 1

\* ------------------------------------------------------------------------
\* load_courses (lines 112-119) and the run up to the course list

\* The CourseRecord fields the model keeps; latitude and longitude are
\* optional and left out here.
RequiredFields ==
    {"name", "address", "phone", "weekday_price", "star_rating", "holes", "yardage"}

FileRecord(n, a, wp, sr, h, y) ==
    [name |-> n, address |-> a, phone |-> "555-0100", weekday_price |-> wp,
     star_rating |-> sr, holes |-> h, yardage |-> y]

\* A record with one field left out.
Without(r, k) == [f \in DOMAIN r \ {k} |-> r[f]]

RecordPool ==
    { FileRecord(<<65, 98>>, "1 Main St", 45, 40, 18, 6500),
      FileRecord(<<97, 66>>, "2 Oak Ave", 25, 35,  9, 3000),
      Without(FileRecord(<<66, 97>>, "3 Elm Rd", 60, 40, 18, 6500), "weekday_price"),
      Without(FileRecord(<<67>>, "4 Pine Ln", 30, 30, 18, 7000), "phone") }

\* The file: missing, unreadable, not JSON, or a JSON list of records (an
\* empty list, or two and more records).
FileInputs ==
    {[state |-> s, records |-> <<>>] : s \in {"missing", "unreadable", "invalid_json"}}
    \cup {[state |-> "ok", records |-> rs] :
            rs \in {<<>>} \cup DistinctSeqs(RecordPool, 2, MaxFileRecords)}

\* lines 115-117: open() raises for a missing or unreadable file, json.load
\* for text that is not JSON; otherwise the parsed list is returned as it is
LoadCoursesBody(f) ==
    IF f.state # "ok" THEN [raised |-> TRUE, value |-> <<>>]
    ELSE [raised |-> FALSE, value |-> f.records]

\* st.cache_data(ttl=60) (line 113)
LoadTTL == 60

\* load_courses() through its cache at time t
CachedLoad(cache, t, f) ==
    IF <<>> \in DOMAIN cache /\ t - cache[<<>>].at < LoadTTL
    THEN [cache |-> cache, read |-> FALSE, saw |-> "none", raised |-> FALSE,
          value |-> cache[<<>>].value]
    ELSE CHOOSE r \in
            {[cache |-> IF b.raised THEN cache ELSE Store(cache, <<>>, t, b.value),
              read |-> TRUE, saw |-> f.state, raised |-> b.raised, value |-> b.value] :
             b \in {LoadCoursesBody(f)}} : TRUE

HasAll(c, fields) == fields \subseteq DOMAIN c

\* lines 171-277 with the widgets at their defaults but the star slider at
\* ms: how the run ends, and the list shown
RunAfterLoad(cs, ms) ==
    IF \E i \in 1..Len(cs) : ~HasKey(cs[i], "weekday_price")
    THEN [status |-> "KeyError", filtered |-> <<>>]                 \* line 171
    ELSE IF cs = <<>>
    THEN [status |-> "ValueError", filtered |-> <<>>]               \* line 172
    ELSE CHOOSE r \in
      {IF \E i \in 1..Len(f2.items) : ~HasKey(f2.items[i], "star_rating")
       THEN [status |-> "KeyError", filtered |-> <<>>]              \* line 214
       ELSE CHOOSE r2 \in
         {IF \E i \in 1..Len(f4.items) : ~HasAll(f4.items[i], RequiredFields)
          THEN [status |-> "KeyError", filtered |-> f4.items]       \* lines 249-277
          ELSE [status |-> "ok", filtered |-> f4.items] :
          f4 \in {ApplySort(StarFilter(f2, ms), "Name (A-Z)")}} : TRUE :
       f2 \in {PriceFilter([ref |-> "courses", items |-> cs],
                           <<MinPrice(cs), MaxPrice(cs)>>)}} : TRUE

\* One run of the script up to the course list, the star slider at ms.
StartRun ==
    \E ms \in {10, 50} :
    \E l \in {CachedLoad(loadCache, now, file)} :
    \E r \in {IF l.raised THEN [status |-> "load_raised", filtered |-> <<>>]
              ELSE RunAfterLoad(l.value, ms)} :
        /\ loadCache' = l.cache
        /\ loadOutcome' = [read |-> l.read, saw |-> l.saw, raised |-> l.raised]
        /\ dataset' = l.value
        /\ courses' = l.value
        /\ min_stars' = ms
        /\ filtered' = r.filtered
        /\ runStatus' = r.status
        /\ UNCHANGED <<file, search, price_range, hole_filter, sort_option, filteredRef,
                       cacheVars, resolverVars, appVars>>

\* The file changes on disk.
EditFile ==
    /\ file' \in FileInputs
    /\ UNCHANGED <<loadCache, loadOutcome, runStatus, queryVars, cacheVars,
                   resolverVars, appVars>>

\* A minute passes.
MinutePasses ==
    /\ now + LoadTTL <= MaxLoadTime
    /\ now' = now + LoadTTL
    /\ UNCHANGED <<placeCache, photoCache, queryVars, resolverVars, appVars, loadVars>>

LoadInit ==
    /\ QueryIdle
    /\ CacheIdle
    /\ ResolverIdle
    /\ AppIdle
    /\ file \in FileInputs
    /\ loadCache = EmptyCache
    /\ loadOutcome = NoLoad
    /\ runStatus = "not_run"

LoadNext ==
    \/ StartRun
    \/ EditFile
    \/ MinutePasses

SpecLoad == LoadInit /\ [][LoadNext]_vars

\* C9: load_courses raises whenever the file it reads is missing, unreadable
\* or not JSON; a collection it returns has every required field on every
\* record; and a run over a valid collection whose filtered result is empty
\* ends normally.
C9_LoadRejectsInvalid ==
    /\ (loadOutcome.read /\ loadOutcome.saw # "ok") => loadOutcome.raised
    /\ (runStatus # "not_run" /\ ~loadOutcome.raised)
          => \A i \in 1..Len(dataset) : HasAll(dataset[i], RequiredFields)
    /\ (/\ runStatus # "not_run"
        /\ ~loadOutcome.raised
        /\ dataset # <<>>
        /\ \A i \in 1..Len(dataset) : HasAll(dataset[i], RequiredFields)
        /\ filtered = <<>>)
          => runStatus = "ok"

====
